---- MODULE Spec2Model ----
(***************************************************************************)
(* Model of SSHConnectionManager (src/src/utils/ssh-connection.ts): the    *)
(* connection lifecycle kept in the `connected` flag and the ssh2 client,  *)
(* and the file transfer operations readFile / writeFile acting on a       *)
(* remote file system through SFTP.                                        *)
(***************************************************************************)
EXTENDS Integers, Sequences, FiniteSets, TLC

(***************************************************************************)
(* Bounds of the model.                                                    *)
(***************************************************************************)
NumCallers == 2
MaxInflight == 2
MaxLen == 2

Callers == 1..NumCallers

VARIABLES
  connected,   \* SSHConnectionManager.connected
  client,      \* the ssh2 Client: session state, handshakes pending, calls made on it
  waiting,     \* callers whose connect() promise is pending
  pc,          \* position of each caller in its operation
  op,          \* operation each caller is running
  res,         \* outcome of each caller's operation
  early,       \* the caller's connect() took the early return of line 24-27
  fs,          \* remote files: target path, path.backup, path.tmp
  dirOk,       \* the parent directory of path exists
  wr,          \* the writeFile call in progress (arguments, progress, outcome)
  rd,          \* the readFile call in progress
  rejection,   \* the value each caller's operation was rejected with
  ex,          \* the execWithTimeout call in progress
  st,          \* the streaming execution in progress
  lf,          \* the listFiles call in progress and the directory it lists
  proc,        \* the server process owning the manager: startup, signal handlers, exit
  hd,          \* the execute-command request being dispatched by its handler
  cw           \* two writeFile calls running at once on the same path

connVars == <<connected, client, waiting, pc, op, res, early>>
fileVars == <<fs, dirOk, wr, rd>>
execVars == <<ex, st, lf>>
hostVars == <<proc, hd, cw>>
vars == <<connected, client, waiting, pc, op, res, early, fs, dirOk, wr, rd, rejection, ex, st, lf, proc, hd, cw>>

(***************************************************************************)
(* Connection manager                                                      *)
(***************************************************************************)
ConnOps == {"connect", "exec", "execWithTimeout", "execStream", "getSFTP"}
ChannelOps == ConnOps \ {"connect"}
FileOps == {"writeFile", "readFile"}

\* isConnected(): a pure query of the flag
isConnected == connected

\* The ConnectionState of the data model, read off the fields the code keeps.
ConnectionState ==
  IF connected THEN "Ready"
  ELSE IF client.inflight > 0 THEN "Connecting"
  ELSE IF client.session = "failed" THEN "Failed"
  ELSE "Disconnected"

\* Events delivered by the event loop (socket events, signals) run only when no
\* continuation of an awaited promise is queued: microtasks drain first.
MicrotaskPending == \E c \in Callers : pc[c] = "resume"

\* Errors the ssh2 client reports for a failed handshake
HandshakeFailures == {"transport", "authentication"}

\* this.config.host
Host == "host"

NoError == [type |-> "none", host |-> "none", cause |-> "none"]

\* reject(err) in the 'error' handler: the client's error is passed on as it is
ConnectRejection(cause) == [type |-> "Error", host |-> "none", cause |-> cause]

\* this.client.on('ready', ..).on('error', ..).connect(..): a handshake is started
StartHandshake(cl) ==
  [cl EXCEPT !.session = "handshaking", !.inflight = @ + 1]

\* connect() with the `if (this.connected) return` guard removed
ConnectBody_NoGuard(c, after) ==
  /\ client.inflight < MaxInflight
  /\ client' = StartHandshake(client)
  /\ waiting' = waiting \cup {c}
  /\ pc' = [pc EXCEPT ![c] = "awaitConnect"]
  /\ early' = [early EXCEPT ![c] = FALSE]
  /\ res' = [res EXCEPT ![c] = "none"]
  /\ UNCHANGED connected

\* The body of connect() run by caller c; `after` is where c continues once
\* connect() has returned without waiting.
ConnectBody(c, after) ==
  IF connected
  THEN /\ pc' = [pc EXCEPT ![c] = after]
       /\ early' = [early EXCEPT ![c] = TRUE]
       /\ res' = [res EXCEPT ![c] = IF after = "done" THEN "ok" ELSE "none"]
       /\ UNCHANGED <<connected, client, waiting>>
  ELSE /\ client.inflight < MaxInflight
       /\ client' = StartHandshake(client)
       /\ waiting' = waiting \cup {c}
       /\ pc' = [pc EXCEPT ![c] = "awaitConnect"]
       /\ early' = [early EXCEPT ![c] = FALSE]
       /\ res' = [res EXCEPT ![c] = "none"]
       /\ UNCHANGED connected

\* A caller invokes connect()
CallConnect(c) ==
  /\ pc[c] = "idle"
  /\ op' = [op EXCEPT ![c] = "connect"]
  /\ ConnectBody(c, "done")
  /\ UNCHANGED <<fileVars, execVars, hostVars, rejection>>

\* A channel operation that requests its channel without the connect() check
CallChannelOp_NoConnect(c, o) ==
  /\ pc[c] = "idle"
  /\ op' = [op EXCEPT ![c] = o]
  /\ pc' = [pc EXCEPT ![c] = "awaitChannel"]
  /\ res' = [res EXCEPT ![c] = "none"]
  /\ early' = [early EXCEPT ![c] = FALSE]
  /\ UNCHANGED <<connected, client, waiting>>
  /\ UNCHANGED <<fileVars, execVars, hostVars, rejection>>

\* A caller invokes exec, execWithTimeout, execStream or getSFTP:
\* `if (!this.connected) await this.connect();` then the channel is requested.
CallChannelOp(c, o) ==
  /\ pc[c] = "idle"
  /\ op' = [op EXCEPT ![c] = o]
  /\ IF connected
     THEN /\ pc' = [pc EXCEPT ![c] = "awaitChannel"]
          /\ res' = [res EXCEPT ![c] = "none"]
          /\ early' = [early EXCEPT ![c] = FALSE]
          /\ UNCHANGED <<connected, client, waiting>>
     ELSE ConnectBody(c, "resume")
  /\ UNCHANGED <<fileVars, execVars, hostVars, rejection>>

\* The client emits 'ready': every registered ready handler runs
HandshakeReady ==
  /\ ~MicrotaskPending
  /\ client.inflight > 0
  /\ connected' = TRUE
  /\ client' = [client EXCEPT !.session = "open", !.inflight = @ - 1]
  /\ pc' = [c \in Callers |->
              IF c \in waiting
              THEN (IF op[c] = "connect" THEN "done" ELSE "resume")
              ELSE pc[c]]
  /\ res' = [c \in Callers |->
              IF c \in waiting /\ op[c] = "connect" THEN "ok" ELSE res[c]]
  /\ waiting' = {}
  /\ UNCHANGED <<op, early>>
  /\ UNCHANGED <<fileVars, execVars, hostVars, rejection>>

\* The client emits 'error' during a handshake: every registered error handler runs
HandshakeError ==
  /\ ~MicrotaskPending
  /\ client.inflight > 0
  /\ client' = [client EXCEPT !.session = IF client.inflight > 1 THEN "handshaking" ELSE "failed",
                              !.inflight = @ - 1]
  /\ pc' = [c \in Callers |-> IF c \in waiting THEN "done" ELSE pc[c]]
  /\ res' = [c \in Callers |-> IF c \in waiting THEN "error" ELSE res[c]]
  /\ \E cause \in HandshakeFailures :
        rejection' = [c \in Callers |-> IF c \in waiting THEN ConnectRejection(cause) ELSE rejection[c]]
  /\ waiting' = {}
  /\ UNCHANGED <<connected, op, early>>
  /\ UNCHANGED <<fileVars, execVars, hostVars>>

\* The continuation after `await this.connect()`: the channel is requested
Resume(c) ==
  /\ pc[c] = "resume"
  /\ pc' = [pc EXCEPT ![c] = "awaitChannel"]
  /\ UNCHANGED <<connected, client, waiting, op, res, early>>
  /\ UNCHANGED <<fileVars, execVars, hostVars, rejection>>

\* The callback of client.exec / client.sftp
ChannelCallback(c) ==
  /\ pc[c] = "awaitChannel"
  /\ op[c] \in ChannelOps
  /\ \E ok \in (IF client.session = "open" THEN BOOLEAN ELSE {FALSE}) :
        res' = [res EXCEPT ![c] = IF ok THEN "ok" ELSE "error"]
  /\ pc' = [pc EXCEPT ![c] = "done"]
  /\ UNCHANGED <<connected, client, waiting, op, early>>
  /\ UNCHANGED <<fileVars, execVars, hostVars, rejection>>

\* The caller takes its result; it may issue another operation afterwards
Return(c) ==
  /\ pc[c] = "done"
  /\ op[c] \in ConnOps
  /\ pc' = [pc EXCEPT ![c] = "idle"]
  /\ op' = [op EXCEPT ![c] = "none"]
  /\ res' = [res EXCEPT ![c] = "none"]
  /\ early' = [early EXCEPT ![c] = FALSE]
  /\ rejection' = [rejection EXCEPT ![c] = NoError]
  /\ UNCHANGED <<connected, client, waiting>>
  /\ UNCHANGED <<fileVars, execVars, hostVars>>

\* The underlying session closes (remote end, network); no handler is registered for it
SessionClose ==
  /\ ~MicrotaskPending
  /\ client.session = "open"
  /\ client' = [client EXCEPT !.session = "closed"]
  /\ UNCHANGED <<connected, waiting, pc, op, res, early>>
  /\ UNCHANGED <<fileVars, execVars, hostVars, rejection>>

\* disconnect() that ends the client and forgets `this.connected = false`
Disconnect_KeepsFlag ==
  /\ ~MicrotaskPending
  /\ IF connected
     THEN client' = [client EXCEPT !.session = IF client.inflight > 0 THEN "handshaking" ELSE "closed"]
     ELSE UNCHANGED client
  /\ UNCHANGED <<connected, waiting, pc, op, res, early>>
  /\ UNCHANGED <<fileVars, execVars, hostVars, rejection>>

\* The body of disconnect(): client.end() and the flag reset, only when the flag is set
DisconnectBody ==
  IF connected
  THEN /\ client' = [client EXCEPT !.session = IF client.inflight > 0 THEN "handshaking" ELSE "closed"]
       /\ connected' = FALSE
  ELSE UNCHANGED <<client, connected>>

\* disconnect() is called
Disconnect ==
  /\ ~MicrotaskPending
  /\ DisconnectBody
  /\ UNCHANGED <<waiting, pc, op, res, early>>
  /\ UNCHANGED <<fileVars, execVars, hostVars, rejection>>

(***************************************************************************)
(* Content and encodings.  A string is a sequence of UTF-16 code units, a  *)
(* file a sequence of bytes.                                               *)
(***************************************************************************)
Chars == {65, 233, 55296, 56320}   \* "A", e-acute, a high and a low surrogate
Encodings == {"utf-8", "ascii"}

RECURSIVE SeqsUpTo(_, _)
SeqsUpTo(S, n) ==
  IF n = 0 THEN {<<>>}
  ELSE LET shorter == SeqsUpTo(S, n - 1)
       IN  shorter \cup {Append(s, x) : s \in shorter, x \in S}

Contents == SeqsUpTo(Chars, MaxLen)

IsHigh(c) == c >= 55296 /\ c <= 56319
IsLow(c) == c >= 56320 /\ c <= 57343
IsCont(b) == b >= 128 /\ b <= 191

\* UTF-8 bytes of one code unit that is not part of a surrogate pair
Utf8Unit(c) ==
  IF c < 128 THEN <<c>>
  ELSE IF c < 2048 THEN <<192 + (c \div 64), 128 + (c % 64)>>
  ELSE IF IsHigh(c) \/ IsLow(c) THEN <<239, 191, 189>>
  ELSE <<224 + (c \div 4096), 128 + ((c \div 64) % 64), 128 + (c % 64)>>

\* UTF-8 bytes of a surrogate pair
Utf8Pair(hi, lo) ==
  LET cp == 65536 + (hi - 55296) * 1024 + (lo - 56320)
  IN  <<240 + (cp \div 262144), 128 + ((cp \div 4096) % 64),
        128 + ((cp \div 64) % 64), 128 + (cp % 64)>>

RECURSIVE Utf8Encode(_)
Utf8Encode(s) ==
  IF s = <<>> THEN <<>>
  ELSE IF Len(s) >= 2 /\ IsHigh(s[1]) /\ IsLow(s[2])
       THEN Utf8Pair(s[1], s[2]) \o Utf8Encode(SubSeq(s, 3, Len(s)))
       ELSE Utf8Unit(s[1]) \o Utf8Encode(Tail(s))

RECURSIVE Utf8Decode(_)
Utf8Decode(b) ==
  IF b = <<>> THEN <<>>
  ELSE IF b[1] < 128 THEN <<b[1]>> \o Utf8Decode(Tail(b))
  ELSE IF b[1] >= 194 /\ b[1] <= 223 /\ Len(b) >= 2 /\ IsCont(b[2])
       THEN <<(b[1] - 192) * 64 + (b[2] - 128)>> \o Utf8Decode(SubSeq(b, 3, Len(b)))
  ELSE IF b[1] >= 224 /\ b[1] <= 239 /\ Len(b) >= 3 /\ IsCont(b[2]) /\ IsCont(b[3])
          /\ ~(b[1] = 224 /\ b[2] < 160) /\ ~(b[1] = 237 /\ b[2] >= 160)
       THEN <<(b[1] - 224) * 4096 + (b[2] - 128) * 64 + (b[3] - 128)>>
            \o Utf8Decode(SubSeq(b, 4, Len(b)))
  ELSE IF b[1] >= 240 /\ b[1] <= 244 /\ Len(b) >= 4
          /\ IsCont(b[2]) /\ IsCont(b[3]) /\ IsCont(b[4])
       THEN LET cp == (b[1] - 240) * 262144 + (b[2] - 128) * 4096
                      + (b[3] - 128) * 64 + (b[4] - 128) - 65536
            IN  <<55296 + (cp \div 1024), 56320 + (cp % 1024)>>
                \o Utf8Decode(SubSeq(b, 5, Len(b)))
  ELSE <<65533>> \o Utf8Decode(Tail(b))

\* Buffer.from(content, encoding)
BufferFrom(content, encoding) ==
  IF encoding = "ascii"
  THEN [i \in 1..Len(content) |-> content[i] % 256]
  ELSE Utf8Encode(content)

\* A decoder that ignores the requested encoding
BufferToString_IgnoreEncoding(bytes, encoding) ==
  [i \in 1..Len(bytes) |-> bytes[i] % 128]

\* buffer.toString(encoding), as sftp.readFile with an encoding option decodes
BufferToString(bytes, encoding) ==
  IF encoding = "ascii"
  THEN [i \in 1..Len(bytes) |-> bytes[i] % 128]
  ELSE Utf8Decode(bytes)

(***************************************************************************)
(* The remote file system, as far as one writeFile(path, ..) touches it.   *)
(***************************************************************************)
Absent == [exists |-> FALSE, data |-> <<>>]
File(bytes) == [exists |-> TRUE, data |-> bytes]

\* What a reader polling path observes at this instant
ReaderObserves == fs.path

\* Outcomes an SFTP rename of a source can have
RenameOutcomes(src) ==
  IF src.exists THEN {"ok", "Permission denied"}
  ELSE {"No such file", "Permission denied"}

Writer == NumCallers - 1
Reader == NumCallers

\* Remote files an operation may find
RemoteStates ==
  [path : {Absent, File(<<111>>)}, backup : {Absent, File(<<98>>)}, tmp : {Absent}]

\* No writeFile call made yet
NoWrite ==
  [content |-> <<>>, encoding |-> "utf-8", createDirs |-> FALSE, backup |-> FALSE,
   old |-> Absent, issued |-> <<>>, failedAt |-> "none", backupResult |-> "none",
   status |-> "idle", bytesWritten |-> 0, backupPath |-> "undefined"]

\* No readFile call in progress
NoRead ==
  [encoding |-> "utf-8", maxSize |-> 0, size |-> 0, content |-> <<>>,
   status |-> "idle", fresh |-> FALSE, bytes |-> 0]

(***************************************************************************)
(* writeFile                                                               *)
(***************************************************************************)
Range(q) == {q[i] : i \in 1..Len(q)}

\* getSFTP() as the first step of a file operation of caller c
GetSFTP(c) ==
  IF connected
  THEN /\ pc' = [pc EXCEPT ![c] = "awaitChannel"]
       /\ res' = [res EXCEPT ![c] = "none"]
       /\ early' = [early EXCEPT ![c] = FALSE]
       /\ UNCHANGED <<connected, client, waiting>>
  ELSE ConnectBody(c, "resume")

\* reject(..) at a step of writeFile
Rejected(w, step) == [w EXCEPT !.status = "error", !.failedAt = step]

\* writeOperation(): the backup rename when requested, else performWrite()
WriteOperationStep(w) == IF w.backup THEN "backupRename" ELSE "tmpOpen"

\* writeFile(path, content, {encoding, createDirs, backup}) is called
CallWriteFile(content, encoding, createDirs, backup) ==
  /\ pc[Writer] = "idle"
  /\ wr.status = "idle"
  /\ op' = [op EXCEPT ![Writer] = "writeFile"]
  /\ wr' = [wr EXCEPT !.content = content, !.encoding = encoding,
                      !.createDirs = createDirs, !.backup = backup,
                      !.old = fs.path, !.status = "running"]
  /\ rd' = [rd EXCEPT !.fresh = FALSE]
  /\ GetSFTP(Writer)
  /\ UNCHANGED <<fs, dirOk>>
  /\ UNCHANGED <<execVars, hostVars, rejection>>

\* The callback of client.sftp inside writeFile
WSftpCallback ==
  /\ pc[Writer] = "awaitChannel"
  /\ op[Writer] = "writeFile"
  /\ \E ok \in (IF client.session = "open" THEN BOOLEAN ELSE {FALSE}) :
       IF ok
       THEN /\ pc' = [pc EXCEPT ![Writer] =
                        IF wr.createDirs THEN "mkdir" ELSE WriteOperationStep(wr)]
            /\ UNCHANGED wr
       ELSE /\ pc' = [pc EXCEPT ![Writer] = "done"]
            /\ wr' = Rejected(wr, "getSFTP")
  /\ UNCHANGED <<connected, client, waiting, op, res, early, fs, dirOk, rd>>
  /\ UNCHANGED <<execVars, hostVars, rejection>>

\* mkdir with a failure that does not stop writeOperation() from running
WMkdir_ContinueOnFailure ==
  /\ pc[Writer] = "mkdir"
  /\ \E ok \in BOOLEAN :
       /\ pc' = [pc EXCEPT ![Writer] = WriteOperationStep(wr)]
       /\ IF ok
          THEN /\ dirOk' = TRUE
               /\ wr' = [wr EXCEPT !.issued = Append(@, "mkdir")]
          ELSE /\ wr' = Rejected([wr EXCEPT !.issued = Append(@, "mkdir")], "mkdir")
               /\ UNCHANGED dirOk
  /\ UNCHANGED <<connected, client, waiting, op, res, early, fs, rd>>
  /\ UNCHANGED <<execVars, hostVars, rejection>>

\* this.exec(`mkdir -p ${dirPath}`).then(writeOperation).catch(reject)
WMkdir ==
  /\ pc[Writer] = "mkdir"
  /\ \E ok \in BOOLEAN :
       IF ok
       THEN /\ dirOk' = TRUE
            /\ wr' = [wr EXCEPT !.issued = Append(@, "mkdir")]
            /\ pc' = [pc EXCEPT ![Writer] = WriteOperationStep(wr)]
       ELSE /\ wr' = Rejected([wr EXCEPT !.issued = Append(@, "mkdir")], "mkdir")
            /\ pc' = [pc EXCEPT ![Writer] = "done"]
            /\ UNCHANGED dirOk
  /\ UNCHANGED <<connected, client, waiting, op, res, early, fs, rd>>
  /\ UNCHANGED <<execVars, hostVars, rejection>>

\* A backup rename whose every failure aborts the write
BackupAborts_NoTolerance(err) == err # "ok"

\* `if (err && err.message !== 'No such file')`
BackupAborts(err) == err # "ok" /\ err # "No such file"

\* sftp.rename(path, backupPath, callback)
WBackupRename ==
  /\ pc[Writer] = "backupRename"
  /\ \E out \in RenameOutcomes(fs.path) :
       /\ fs' = IF out = "ok"
                THEN [fs EXCEPT !.backup = fs.path, !.path = Absent]
                ELSE fs
       /\ LET w == [wr EXCEPT !.issued = Append(@, "backupRename"), !.backupResult = out]
          IN  IF BackupAborts(out)
              THEN /\ wr' = Rejected(w, "backupRename")
                   /\ pc' = [pc EXCEPT ![Writer] = "done"]
              ELSE /\ wr' = [w EXCEPT !.backupPath = "path.backup"]
                   /\ pc' = [pc EXCEPT ![Writer] = "tmpOpen"]
  /\ UNCHANGED <<connected, client, waiting, op, res, early, dirOk, rd>>
  /\ UNCHANGED <<execVars, hostVars, rejection>>

\* sftp.writeFile(tempPath, buffer, ..): the temp file is opened for writing
WTmpOpen ==
  /\ pc[Writer] = "tmpOpen"
  /\ \E ok \in (IF dirOk THEN BOOLEAN ELSE {FALSE}) :
       IF ok
       THEN /\ fs' = [fs EXCEPT !.tmp = File(<<>>)]
            /\ wr' = [wr EXCEPT !.issued = Append(@, "tmpWrite")]
            /\ pc' = [pc EXCEPT ![Writer] = "tmpWrite"]
       ELSE /\ wr' = Rejected([wr EXCEPT !.issued = Append(@, "tmpWrite")], "tmpWrite")
            /\ pc' = [pc EXCEPT ![Writer] = "done"]
            /\ UNCHANGED fs
  /\ UNCHANGED <<connected, client, waiting, op, res, early, dirOk, rd>>
  /\ UNCHANGED <<execVars, hostVars, rejection>>

\* sftp.writeFile(tempPath, buffer, ..): the buffer is written, wholly or up to a failure
WTmpWrite ==
  /\ pc[Writer] = "tmpWrite"
  /\ LET buffer == BufferFrom(wr.content, wr.encoding)
     IN  \/ /\ fs' = [fs EXCEPT !.tmp = File(buffer)]
            /\ pc' = [pc EXCEPT ![Writer] = "finalRename"]
            /\ UNCHANGED wr
         \/ /\ \E k \in 0..(IF Len(buffer) = 0 THEN 0 ELSE Len(buffer) - 1) :
                  fs' = [fs EXCEPT !.tmp = File(SubSeq(buffer, 1, k))]
            /\ wr' = Rejected(wr, "tmpWrite")
            /\ pc' = [pc EXCEPT ![Writer] = "done"]
  /\ UNCHANGED <<connected, client, waiting, op, res, early, dirOk, rd>>
  /\ UNCHANGED <<execVars, hostVars, rejection>>

\* sftp.rename(tempPath, path, callback)
WFinalRename ==
  /\ pc[Writer] = "finalRename"
  /\ \E out \in RenameOutcomes(fs.tmp) :
       LET w == [wr EXCEPT !.issued = Append(@, "finalRename")]
       IN  IF out = "ok"
           THEN /\ fs' = [fs EXCEPT !.path = fs.tmp, !.tmp = Absent]
                /\ wr' = [w EXCEPT !.status = "ok",
                                   !.bytesWritten = Len(BufferFrom(wr.content, wr.encoding))]
                /\ pc' = [pc EXCEPT ![Writer] = "done"]
           ELSE /\ wr' = Rejected(w, "finalRename")
                /\ pc' = [pc EXCEPT ![Writer] = "done"]
                /\ UNCHANGED fs
  /\ UNCHANGED <<connected, client, waiting, op, res, early, dirOk, rd>>
  /\ UNCHANGED <<execVars, hostVars, rejection>>

(***************************************************************************)
(* readFile                                                                *)
(***************************************************************************)
MaxSizes == {1, 1048576}

\* A readFile that waits until no command execution is pending on the connection
CallReadFile_Serialized(encoding, maxSize) ==
  /\ pc[Reader] = "idle"
  /\ ex.status # "pending"
  /\ op' = [op EXCEPT ![Reader] = "readFile"]
  /\ rd' = [encoding |-> encoding, maxSize |-> maxSize, size |-> 0, content |-> <<>>,
            status |-> "running", fresh |-> (wr.status = "ok"), bytes |-> 0]
  /\ GetSFTP(Reader)
  /\ UNCHANGED <<fs, dirOk, wr>>
  /\ UNCHANGED <<execVars, hostVars, rejection>>

\* readFile(path, encoding, maxSize) is called
CallReadFile(encoding, maxSize) ==
  /\ pc[Reader] = "idle"
  /\ op' = [op EXCEPT ![Reader] = "readFile"]
  /\ rd' = [encoding |-> encoding, maxSize |-> maxSize, size |-> 0, content |-> <<>>,
            status |-> "running", fresh |-> (wr.status = "ok"), bytes |-> 0]
  /\ GetSFTP(Reader)
  /\ UNCHANGED <<fs, dirOk, wr>>
  /\ UNCHANGED <<execVars, hostVars, rejection>>

\* The callback of client.sftp inside readFile
RSftpCallback ==
  /\ pc[Reader] = "awaitChannel"
  /\ op[Reader] = "readFile"
  /\ \E ok \in (IF client.session = "open" THEN BOOLEAN ELSE {FALSE}) :
       IF ok
       THEN /\ pc' = [pc EXCEPT ![Reader] = "stat"]
            /\ UNCHANGED rd
       ELSE /\ pc' = [pc EXCEPT ![Reader] = "done"]
            /\ rd' = [rd EXCEPT !.status = "sftp error"]
  /\ UNCHANGED <<connected, client, waiting, op, res, early, fs, dirOk, wr>>
  /\ UNCHANGED <<execVars, hostVars, rejection>>

\* A size check that also rejects a file of exactly maxSize bytes
RStat_RejectsEqual ==
  /\ pc[Reader] = "stat"
  /\ \E ok \in (IF fs.path.exists THEN BOOLEAN ELSE {FALSE}) :
       IF ~ok
       THEN /\ rd' = [rd EXCEPT !.status = "File not found or inaccessible"]
            /\ pc' = [pc EXCEPT ![Reader] = "done"]
       ELSE IF Len(fs.path.data) >= rd.maxSize
            THEN /\ rd' = [rd EXCEPT !.status = "File too large"]
                 /\ pc' = [pc EXCEPT ![Reader] = "done"]
            ELSE /\ rd' = [rd EXCEPT !.size = Len(fs.path.data)]
                 /\ pc' = [pc EXCEPT ![Reader] = "read"]
  /\ UNCHANGED <<connected, client, waiting, op, res, early, fs, dirOk, wr>>
  /\ UNCHANGED <<execVars, hostVars, rejection>>

\* A stat callback that ignores the error and goes on to read the file
RStat_ReadsAnyway ==
  /\ pc[Reader] = "stat"
  /\ \E ok \in (IF fs.path.exists THEN BOOLEAN ELSE {FALSE}) :
       IF ok /\ Len(fs.path.data) > rd.maxSize
       THEN /\ rd' = [rd EXCEPT !.status = "File too large"]
            /\ pc' = [pc EXCEPT ![Reader] = "done"]
       ELSE /\ rd' = [rd EXCEPT !.size = Len(fs.path.data)]
            /\ pc' = [pc EXCEPT ![Reader] = "read"]
  /\ UNCHANGED <<connected, client, waiting, op, res, early, fs, dirOk, wr>>
  /\ UNCHANGED <<execVars, hostVars, rejection>>

\* The callback of sftp.stat(path, ..)
RStat ==
  /\ pc[Reader] = "stat"
  /\ \E ok \in (IF fs.path.exists THEN BOOLEAN ELSE {FALSE}) :
       IF ~ok
       THEN /\ rd' = [rd EXCEPT !.status = "File not found or inaccessible"]
            /\ pc' = [pc EXCEPT ![Reader] = "done"]
       ELSE IF Len(fs.path.data) > rd.maxSize
            THEN /\ rd' = [rd EXCEPT !.status = "File too large"]
                 /\ pc' = [pc EXCEPT ![Reader] = "done"]
            ELSE /\ rd' = [rd EXCEPT !.size = Len(fs.path.data)]
                 /\ pc' = [pc EXCEPT ![Reader] = "read"]
  /\ UNCHANGED <<connected, client, waiting, op, res, early, fs, dirOk, wr>>
  /\ UNCHANGED <<execVars, hostVars, rejection>>

\* The callback of sftp.readFile(path, {encoding}, ..)
RRead ==
  /\ pc[Reader] = "read"
  /\ \E ok \in (IF fs.path.exists THEN BOOLEAN ELSE {FALSE}) :
       IF ok
       THEN rd' = [rd EXCEPT !.content = BufferToString(fs.path.data, rd.encoding),
                             !.bytes = Len(fs.path.data),
                             !.status = "ok"]
       ELSE rd' = [rd EXCEPT !.status = "Failed to read file"]
  /\ pc' = [pc EXCEPT ![Reader] = "done"]
  /\ UNCHANGED <<connected, client, waiting, op, res, early, fs, dirOk, wr>>
  /\ UNCHANGED <<execVars, hostVars, rejection>>

\* The caller of readFile takes the result; it may read again
RReturn ==
  /\ pc[Reader] = "done"
  /\ op[Reader] = "readFile"
  /\ pc' = [pc EXCEPT ![Reader] = "idle"]
  /\ op' = [op EXCEPT ![Reader] = "none"]
  /\ rd' = NoRead
  /\ UNCHANGED <<connected, client, waiting, res, early, fs, dirOk, wr>>
  /\ UNCHANGED <<execVars, hostVars, rejection>>

(***************************************************************************)
(* execWithTimeout                                                         *)
(***************************************************************************)
MaxChunks == 3
TimeoutExitCode == 124

Chunks == {<<"a">>, <<"b", "c">>}
ExitCodes == {0, 1, TimeoutExitCode}
TimeoutMessage == "Command execution timed out"
\* Messages of the errors client.exec reports when the channel cannot be opened
OpenErrors == {"(SSH) Channel open failure", "Not connected"}

Executor == NumCallers - 1

NoResult == [kind |-> "none", stdout |-> <<>>, stderr |-> <<>>, exitCode |-> 0,
             timedOut |-> FALSE, message |-> ""]

\* No execWithTimeout call made yet
NoExec ==
  [status |-> "idle", chan |-> "none", stdout |-> <<>>, stderr |-> <<>>,
   recvOut |-> <<>>, recvErr |-> <<>>, closeCode |-> 0, timer |-> "none",
   execCalls |-> 0, first |-> "none", result |-> NoResult]

RECURSIVE Flatten(_)
Flatten(chunks) ==
  IF chunks = <<>> THEN <<>> ELSE Head(chunks) \o Flatten(Tail(chunks))

\* return { ...result, timedOut: false } with the value execPromise resolved to
Completed(e, code) ==
  [kind |-> "result", stdout |-> e.stdout, stderr |-> e.stderr, exitCode |-> code,
   timedOut |-> FALSE, message |-> ""]

\* A catch block whose timeout result keeps the output accumulated so far
Caught_KeepsOutput(message) ==
  IF message = TimeoutMessage
  THEN [kind |-> "result", stdout |-> ex.stdout, stderr |-> ex.stderr,
        exitCode |-> TimeoutExitCode, timedOut |-> TRUE, message |-> ""]
  ELSE [kind |-> "failure", stdout |-> <<>>, stderr |-> <<>>, exitCode |-> 0,
        timedOut |-> FALSE, message |-> message]

\* A catch block that reports every rejection as a timeout
Caught_AllTimeouts(message) ==
  [kind |-> "result", stdout |-> <<>>, stderr |-> <<TimeoutMessage>>,
   exitCode |-> TimeoutExitCode, timedOut |-> TRUE, message |-> ""]

\* The catch block of execWithTimeout, run with the message of the rejection
Caught(message) ==
  IF message = TimeoutMessage
  THEN [kind |-> "result", stdout |-> <<>>, stderr |-> <<TimeoutMessage>>,
        exitCode |-> TimeoutExitCode, timedOut |-> TRUE, message |-> ""]
  ELSE [kind |-> "failure", stdout |-> <<>>, stderr |-> <<>>, exitCode |-> 0,
        timedOut |-> FALSE, message |-> message]

\* A race in which the promise that settles last decides
Settle_LastWins(e, event, result) ==
  [e EXCEPT !.first = event, !.result = result, !.status = "returned"]

\* Promise.race: the first promise to settle decides; later ones change nothing
Settle(e, event, result) ==
  IF e.first = "none"
  THEN [e EXCEPT !.first = event, !.result = result, !.status = "returned"]
  ELSE e

\* Where the caller of execWithTimeout stands once e is the state of the call
ExecPc(e) == IF e.first = "none" THEN "awaitChannel" ELSE "done"
ExecRes(e) ==
  IF e.first = "none" THEN "none"
  ELSE IF e.result.kind = "result" THEN "ok" ELSE "error"

\* What an event of the call leaves in the caller's and the manager's state
ExecFrame ==
  /\ pc' = [pc EXCEPT ![Executor] = ExecPc(ex')]
  /\ res' = [res EXCEPT ![Executor] = ExecRes(ex')]
  /\ UNCHANGED <<connected, client, waiting, op, early, fileVars, st, lf, hostVars, rejection>>

\* execWithTimeout(command, timeoutSeconds) is called on a Ready connection
\* (the lazy connect of lines 104-106 is CallChannelOp): client.exec is invoked
\* and the timer is armed in the same turn
CallExecWithTimeout ==
  /\ pc[Executor] = "idle"
  /\ ex.status = "idle"
  /\ connected
  /\ op' = [op EXCEPT ![Executor] = "execWithTimeout"]
  /\ ex' = [ex EXCEPT !.status = "pending", !.timer = "armed", !.execCalls = @ + 1]
  /\ pc' = [pc EXCEPT ![Executor] = "awaitChannel"]
  /\ UNCHANGED <<connected, client, waiting, res, early, fileVars, st, lf, hostVars, rejection>>

\* The callback of client.exec: the stream, or an error
EOpenCallback ==
  /\ ex.status # "idle"
  /\ ex.chan = "none"
  /\ \/ /\ client.session = "open"
        /\ ex' = [ex EXCEPT !.chan = "open"]
     \/ \E message \in OpenErrors :
          ex' = Settle([ex EXCEPT !.chan = "failed"], "openError", Caught(message))
  /\ ExecFrame

\* A stdout chunk that is dropped instead of appended
EData_Dropped(chunk) ==
  /\ ex.chan = "open"
  /\ Len(ex.recvOut) + Len(ex.recvErr) < MaxChunks
  /\ ex' = [ex EXCEPT !.recvOut = Append(@, chunk)]
  /\ UNCHANGED <<connVars, fileVars, st, lf, hostVars, rejection>>

\* stream.on('data'): stdout += data.toString()
EData(chunk) ==
  /\ ex.chan = "open"
  /\ Len(ex.recvOut) + Len(ex.recvErr) < MaxChunks
  /\ ex' = [ex EXCEPT !.stdout = @ \o chunk, !.recvOut = Append(@, chunk)]
  /\ UNCHANGED <<connVars, fileVars, st, lf, hostVars, rejection>>

\* stream.stderr.on('data'): stderr += data.toString()
EStderrData(chunk) ==
  /\ ex.chan = "open"
  /\ Len(ex.recvOut) + Len(ex.recvErr) < MaxChunks
  /\ ex' = [ex EXCEPT !.stderr = @ \o chunk, !.recvErr = Append(@, chunk)]
  /\ UNCHANGED <<connVars, fileVars, st, lf, hostVars, rejection>>

\* stream.on('close', code): resolve({stdout, stderr, exitCode: code})
EClose(code) ==
  /\ ex.chan = "open"
  /\ ex' = Settle([ex EXCEPT !.chan = "closed", !.closeCode = code], "close",
                  Completed(ex, code))
  /\ ExecFrame

\* A timer whose callback does not reject the timeout promise
ETimer_NoReject ==
  /\ ex.timer = "armed"
  /\ ex' = [ex EXCEPT !.timer = "fired"]
  /\ ExecFrame

\* The setTimeout callback: reject(new Error('Command execution timed out'))
ETimer ==
  /\ ex.timer = "armed"
  /\ ex' = Settle([ex EXCEPT !.timer = "fired"], "timer", Caught(TimeoutMessage))
  /\ ExecFrame

(***************************************************************************)
(* execStream and the streaming command handler executeWithProgress        *)
(***************************************************************************)
MaxTicks == 2
MIN_PROGRESS_INTERVAL == 100

Streamer == NumCallers

\* Date.now() when the execution starts: far more than the interval after 1970
Epoch == 10 * MIN_PROGRESS_INTERVAL

\* Amounts of time that pass between two events of the execution
Delays == {MIN_PROGRESS_INTERVAL \div 2, MIN_PROGRESS_INTERVAL}

NoOutput == [kind |-> "none", stdout |-> <<>>, stderr |-> <<>>, exitCode |-> 0,
             timedOut |-> FALSE, streamed |-> FALSE]

Pending == [state |-> "pending", value |-> 0]

\* No streaming execution started yet
NoStream ==
  [status |-> "idle", chan |-> "none", exitCode |-> Pending, resolves |-> 0,
   errored |-> FALSE, closeCode |-> 0, stdout |-> <<>>, stderr |-> <<>>,
   chunks |-> 0, output |-> NoOutput,
   recvOut |-> <<>>, recvErr |-> <<>>, errorAt |-> 0,
   now |-> Epoch, ticks |-> 0, lastProgressTime |-> 0, bytesReceived |-> 0,
   notifications |-> <<>>]

\* resolveExit(code) that reports success whatever the code
ResolveExit_Zero(future, code) ==
  IF future.state = "pending" THEN [state |-> "resolved", value |-> 0] ELSE future

\* resolveExit(code): a promise settles once, later calls change nothing
ResolveExit(future, code) ==
  IF future.state = "pending" THEN [state |-> "resolved", value |-> code] ELSE future

\* The catch block of handleAcpRemoteExecuteCommand: the error becomes a result
\* with exit code 1 and the message on stderr
HandlerCaught(message) ==
  [kind |-> "error", stdout |-> <<>>, stderr |-> <<message>>, exitCode |-> 1,
   timedOut |-> FALSE, streamed |-> FALSE]

\* An assembled result that loses the output of an execution that had an error
HandlerOutput_DropsOnError(s) ==
  [kind |-> "success", stdout |-> IF s.errored THEN <<>> ELSE s.stdout,
   stderr |-> s.stderr, exitCode |-> s.exitCode.value,
   timedOut |-> FALSE, streamed |-> TRUE]

\* The ExecuteCommandResult executeWithProgress assembles after `await exitCode`
HandlerOutput(s) ==
  [kind |-> "success", stdout |-> s.stdout, stderr |-> s.stderr,
   exitCode |-> s.exitCode.value, timedOut |-> FALSE, streamed |-> TRUE]

\* handleAcpRemoteExecuteCommand with a progress token, on a Ready connection:
\* executeWithProgress calls execStream, which invokes client.exec
CallExecuteWithProgress ==
  /\ pc[Streamer] = "idle"
  /\ st.status = "idle"
  /\ connected
  /\ op' = [op EXCEPT ![Streamer] = "execStream"]
  /\ pc' = [pc EXCEPT ![Streamer] = "awaitChannel"]
  /\ st' = [st EXCEPT !.status = "opening"]
  /\ UNCHANGED <<connected, client, waiting, res, early, fileVars, ex, lf, hostVars, rejection>>

\* The callback of client.exec in execStream.  With a stream: the exit-code
\* promise is created, execStream resolves with the three handles and
\* executeWithProgress registers its listeners.  With an error: execStream
\* rejects and the handler's catch block produces the result.
SOpenCallback ==
  /\ st.status = "opening"
  /\ \/ /\ client.session = "open"
        /\ st' = [st EXCEPT !.status = "returned", !.chan = "open"]
        /\ pc' = [pc EXCEPT ![Streamer] = "awaitExit"]
        /\ UNCHANGED res
     \/ /\ \E message \in OpenErrors :
             st' = [st EXCEPT !.status = "failed", !.chan = "failed",
                              !.output = HandlerCaught(message)]
        /\ pc' = [pc EXCEPT ![Streamer] = "done"]
        /\ res' = [res EXCEPT ![Streamer] = "error"]
  /\ UNCHANGED <<connected, client, waiting, op, early, fileVars, ex, lf, hostVars, rejection>>

\* Time passes while the command runs
STick(d) ==
  /\ st.chan = "open"
  /\ st.ticks < MaxTicks
  /\ st' = [st EXCEPT !.now = @ + d, !.ticks = @ + 1]
  /\ UNCHANGED <<connVars, fileVars, ex, lf, hostVars, rejection>>

\* The progress notification of a stdout chunk: progress is the byte count so
\* far, message the text of this chunk
Notification(s, chunk) ==
  [time |-> s.now, progress |-> s.bytesReceived + Len(chunk), message |-> chunk]

\* A 'data' listener that notifies for every chunk
SData_NoRateLimit(chunk) ==
  /\ st.chan = "open"
  /\ st.chunks < MaxChunks
  /\ st' = [st EXCEPT !.stdout = @ \o chunk, !.chunks = @ + 1,
                      !.recvOut = Append(@, chunk),
                      !.bytesReceived = @ + Len(chunk),
                      !.notifications = Append(@, Notification(st, chunk)),
                      !.lastProgressTime = st.now]
  /\ UNCHANGED <<connVars, fileVars, ex, lf, hostVars, rejection>>

\* A 'data' listener that forgets to append the chunk to stdout
SData_Dropped(chunk) ==
  /\ st.chan = "open"
  /\ st.chunks < MaxChunks
  /\ st' = [st EXCEPT !.chunks = @ + 1, !.recvOut = Append(@, chunk),
                      !.bytesReceived = @ + Len(chunk)]
  /\ UNCHANGED <<connVars, fileVars, ex, lf, hostVars, rejection>>

\* stream.on('data') of executeWithProgress: stdout += text; bytesReceived +=
\* chunk.length; when now - lastProgressTime >= MIN_PROGRESS_INTERVAL the
\* notification is sent and lastProgressTime = now, unless server.notification
\* throws, which is caught and logged
SData(chunk) ==
  /\ st.chan = "open"
  /\ st.chunks < MaxChunks
  /\ \E sent \in (IF st.now - st.lastProgressTime >= MIN_PROGRESS_INTERVAL
                   THEN BOOLEAN ELSE {FALSE}) :
       st' = [st EXCEPT !.stdout = @ \o chunk, !.chunks = @ + 1,
                        !.recvOut = Append(@, chunk),
                        !.bytesReceived = @ + Len(chunk),
                        !.notifications =
                           IF sent THEN Append(@, Notification(st, chunk)) ELSE @,
                        !.lastProgressTime = IF sent THEN st.now ELSE @]
  /\ UNCHANGED <<connVars, fileVars, ex, lf, hostVars, rejection>>

\* stderrStream.on('data') of executeWithProgress: stderr += chunk.toString()
SStderrData(chunk) ==
  /\ st.chan = "open"
  /\ st.chunks < MaxChunks
  /\ st' = [st EXCEPT !.stderr = @ \o chunk, !.chunks = @ + 1,
                      !.recvErr = Append(@, chunk)]
  /\ UNCHANGED <<connVars, fileVars, ex, lf, hostVars, rejection>>

\* stream.on('error') of execStream and of executeWithProgress: both log
SError ==
  /\ st.chan = "open"
  /\ ~st.errored
  /\ st' = [st EXCEPT !.errored = TRUE, !.errorAt = Len(st.recvOut)]
  /\ UNCHANGED <<connVars, fileVars, ex, lf, hostVars, rejection>>

\* stream.on('close', code) of execStream: resolveExit(code)
SClose(code) ==
  /\ st.chan = "open"
  /\ st' = [st EXCEPT !.chan = "closed", !.closeCode = code,
                      !.exitCode = ResolveExit(@, code), !.resolves = @ + 1]
  /\ UNCHANGED <<connVars, fileVars, ex, lf, hostVars, rejection>>

\* The channel is destroyed after an error and emits no 'close'
SDestroyed ==
  /\ st.chan = "open"
  /\ st.errored
  /\ st' = [st EXCEPT !.chan = "dead"]
  /\ UNCHANGED <<connVars, fileVars, ex, lf, hostVars, rejection>>

\* The continuation of `await exitCode` in executeWithProgress
SReturn ==
  /\ pc[Streamer] = "awaitExit"
  /\ st.exitCode.state # "pending"
  /\ st' = [st EXCEPT !.output = HandlerOutput(st)]
  /\ pc' = [pc EXCEPT ![Streamer] = "done"]
  /\ res' = [res EXCEPT ![Streamer] = "ok"]
  /\ UNCHANGED <<connected, client, waiting, op, early, fileVars, ex, lf, hostVars, rejection>>

(***************************************************************************)
(* listFiles and its fallback listFilesViaSFTP.  A file name is a sequence  *)
(* of characters, the output of ls a sequence of lines.                     *)
(***************************************************************************)
Dot == <<".">>
DotDot == <<".", ".">>

\* Names a directory may hold, in the order ls prints them: a hidden name, a
\* plain name, a name that ends with a blank
NameOrder == << <<".", "h">>, <<"a">>, <<"b", " ">> >>
Names == Range(NameOrder)

\* name.startsWith('.')
Hidden(name) == name # <<>> /\ name[1] = "."

RECURSIVE Trim(_)
\* f.trim()
Trim(line) ==
  IF line = <<>> THEN <<>>
  ELSE IF line[1] = " " THEN Trim(Tail(line))
  ELSE IF line[Len(line)] = " " THEN Trim(SubSeq(line, 1, Len(line) - 1))
  ELSE line

RECURSIVE Map(_, _)
Map(lines, i) ==
  IF i > Len(lines) THEN <<>> ELSE <<Trim(lines[i])>> \o Map(lines, i + 1)

RECURSIVE Filter(_, _, _)
\* The elements of a sequence that belong to a set, in their order
Filter(q, keep, i) ==
  IF i > Len(q) THEN <<>>
  ELSE (IF q[i] \in keep THEN <<q[i]>> ELSE <<>>) \o Filter(q, keep, i + 1)

\* An ls that leaves out the hidden names whatever the flag
LsStdout_NoHidden(dir, all) ==
  Filter(NameOrder, {n \in dir : ~Hidden(n)}, 1) \o << <<>> >>

\* What `ls -A -1 dir` (all) or `ls -1 dir` prints for a directory that can be
\* read: one name per line, each line ended by a newline, so that split('\n')
\* yields an empty last element
LsStdout(dir, all) ==
  Filter(NameOrder, {n \in dir : all \/ ~Hidden(n)}, 1) \o << <<>> >>

\* result.stdout.split('\n').map(f => f.trim()).filter(f => f !== '' && f !== '.' && f !== '..')
Filenames(stdout) ==
  LET trimmed == Map(stdout, 1)
  IN  Filter(trimmed, Range(trimmed) \ {<<>>, Dot, DotDot}, 1)

\* What execWithTimeout may return to listFiles, or throw
LsOutcomes(dir, all) ==
  {[kind |-> "result", exitCode |-> 0, stdout |-> LsStdout(dir, all)]}
    \cup {[kind |-> "result", exitCode |-> code, stdout |-> <<>>] :
             code \in ExitCodes \ {0}}
    \cup {[kind |-> "failure", exitCode |-> 0, stdout |-> <<>>]}

\* Lists sftp.readdir may deliver for the directory: with or without the
\* entries "." and "..", with or without the hidden names
ReaddirLists(dir) ==
  {special \o Filter(NameOrder, names, 1) :
     special \in {<<>>, <<Dot, DotDot>>},
     names \in {dir, {n \in dir : ~Hidden(n)}}}

ReaddirErrors == {"No such file", "Permission denied"}

\* The entries listFilesViaSFTP makes of a readdir list
FallbackEntries(list, includeHidden) ==
  IF includeHidden THEN list
  ELSE Filter(list, {n \in Range(list) : ~Hidden(n)}, 1)

NoOutcome == [kind |-> "none", exitCode |-> 0, stdout |-> <<>>]
NoReaddir == [kind |-> "none", list |-> <<>>, message |-> ""]

\* No listFiles call made yet
NoListing ==
  [status |-> "idle", dir |-> {}, includeHidden |-> FALSE, strategy |-> "none",
   outcome |-> NoOutcome, enumerated |-> <<>>, filenames |-> <<>>,
   failedStats |-> {}, entries |-> <<>>, readdir |-> NoReaddir,
   result |-> [entries |-> <<>>, notice |-> "none"], error |-> ""]

\* The catch block of listFiles: return this.listFilesViaSFTP(path, includeHidden)
Fallback(l) == [l EXCEPT !.status = "fallbackSftp", !.strategy = "fallback"]

\* listFiles(path, includeHidden) is called: execWithTimeout(ls ..) is awaited
CallListFiles(includeHidden) ==
  /\ lf.status = "idle"
  /\ connected
  /\ lf' = [lf EXCEPT !.status = "ls", !.includeHidden = includeHidden,
                      !.strategy = "primary"]
  /\ UNCHANGED <<connVars, fileVars, ex, st, hostVars, rejection>>

\* An enumeration that takes every outcome of the command for a success
LExecReturn_IgnoresExitCode ==
  /\ lf.status = "ls"
  /\ \E outcome \in LsOutcomes(lf.dir, lf.includeHidden) :
       lf' = [lf EXCEPT !.outcome = outcome, !.status = "sftp",
                        !.enumerated = Filenames(outcome.stdout),
                        !.filenames = Filenames(outcome.stdout)]
  /\ UNCHANGED <<connVars, fileVars, ex, st, hostVars, rejection>>

\* execWithTimeout has returned or thrown: a thrown error and a non-zero exit
\* code lead to the catch block, exit code 0 to the file names and getSFTP()
LExecReturn ==
  /\ lf.status = "ls"
  /\ \E outcome \in LsOutcomes(lf.dir, lf.includeHidden) :
       IF outcome.kind = "result" /\ outcome.exitCode = 0
       THEN lf' = [lf EXCEPT !.outcome = outcome, !.status = "sftp",
                             !.enumerated = Filenames(outcome.stdout),
                             !.filenames = Filenames(outcome.stdout)]
       ELSE lf' = Fallback([lf EXCEPT !.outcome = outcome])
  /\ UNCHANGED <<connVars, fileVars, ex, st, hostVars, rejection>>

\* getSFTP() of the primary strategy: its failure is caught by the same catch
LSftp ==
  /\ lf.status = "sftp"
  /\ \E ok \in BOOLEAN :
       lf' = IF ok THEN [lf EXCEPT !.status = "stat"] ELSE Fallback(lf)
  /\ UNCHANGED <<connVars, fileVars, ex, st, hostVars, rejection>>

\* A stat loop in which a failing stat leaves the loop for the catch block
LStat_AbortsOnFailure ==
  /\ lf.status = "stat"
  /\ lf.filenames # <<>>
  /\ LET name == Head(lf.filenames)
         index == Len(lf.enumerated) - Len(lf.filenames) + 1
     IN  \E ok \in (IF name \in lf.dir THEN BOOLEAN ELSE {FALSE}) :
           lf' = IF ok
                 THEN [lf EXCEPT !.entries = Append(@, name), !.filenames = Tail(@)]
                 ELSE Fallback([lf EXCEPT !.failedStats = @ \cup {index}])
  /\ UNCHANGED <<connVars, fileVars, ex, st, hostVars, rejection>>

\* One round of the loop over filenames: sftp.stat(fullPath); the entry is
\* pushed, or the failure is logged and the name skipped
LStat ==
  /\ lf.status = "stat"
  /\ lf.filenames # <<>>
  /\ LET name == Head(lf.filenames)
         index == Len(lf.enumerated) - Len(lf.filenames) + 1
     IN  \E ok \in (IF name \in lf.dir THEN BOOLEAN ELSE {FALSE}) :
           lf' = IF ok
                 THEN [lf EXCEPT !.entries = Append(@, name), !.filenames = Tail(@)]
                 ELSE [lf EXCEPT !.failedStats = @ \cup {index}, !.filenames = Tail(@)]
  /\ UNCHANGED <<connVars, fileVars, ex, st, hostVars, rejection>>

\* The loop is over: return entries
LReturn ==
  /\ lf.status = "stat"
  /\ lf.filenames = <<>>
  /\ lf' = [lf EXCEPT !.status = "ok", !.result.entries = lf.entries]
  /\ UNCHANGED <<connVars, fileVars, ex, st, hostVars, rejection>>

\* getSFTP() of listFilesViaSFTP: its failure rejects listFiles
LFallbackSftp ==
  /\ lf.status = "fallbackSftp"
  /\ \E ok \in BOOLEAN :
       lf' = IF ok THEN [lf EXCEPT !.status = "readdir"]
             ELSE [lf EXCEPT !.status = "error", !.error = "sftp"]
  /\ UNCHANGED <<connVars, fileVars, ex, st, hostVars, rejection>>

\* The callback of sftp.readdir: reject(err), or the entries made of the list,
\* those with a hidden name removed when includeHidden is false
LReaddir ==
  /\ lf.status = "readdir"
  /\ \/ \E message \in ReaddirErrors :
          lf' = [lf EXCEPT !.status = "error", !.error = message,
                           !.readdir = [kind |-> "error", list |-> <<>>,
                                        message |-> message]]
     \/ \E list \in ReaddirLists(lf.dir) :
          lf' = [lf EXCEPT !.status = "ok",
                           !.readdir = [kind |-> "ok", list |-> list, message |-> ""],
                           !.result.entries = FallbackEntries(list, lf.includeHidden)]
  /\ UNCHANGED <<connVars, fileVars, ex, st, hostVars, rejection>>

(***************************************************************************)
(* Server process (src/src/server.ts)                                      *)
(***************************************************************************)
\* No server process is modelled
NoProcess ==
  [state |-> "none", handlers |-> FALSE, signal |-> "none", exit |-> "none", quiet |-> FALSE]

\* The process before main() has run
Created == [NoProcess EXCEPT !.state = "created"]

Signals == {"SIGINT", "SIGTERM"}

\* The caller that is main()
Main == NumCallers - 1

\* main() has been resumed by connect() but its continuation has not run yet
MainPending == proc.state = "starting" /\ pc[Main] = "done"

\* main() runs up to `await sshConnection.connect()`
ServerMain ==
  /\ proc.state = "created"
  /\ pc[Main] = "idle"
  /\ op' = [op EXCEPT ![Main] = "connect"]
  /\ ConnectBody(Main, "done")
  /\ proc' = [proc EXCEPT !.state = "starting"]
  /\ UNCHANGED <<fileVars, execVars, hd, cw, rejection>>

\* connect() has resolved: main() registers the request handlers and
\* process.on('SIGINT', cleanup), process.on('SIGTERM', cleanup) in one turn
ServerStarted ==
  /\ MainPending
  /\ res[Main] = "ok"
  /\ proc' = [proc EXCEPT !.state = "serving", !.handlers = TRUE]
  /\ pc' = [pc EXCEPT ![Main] = "idle"]
  /\ op' = [op EXCEPT ![Main] = "none"]
  /\ res' = [res EXCEPT ![Main] = "none"]
  /\ early' = [early EXCEPT ![Main] = FALSE]
  /\ UNCHANGED <<connected, client, waiting, fileVars, execVars, hd, cw, rejection>>

\* connect() has rejected: main().catch(..) calls process.exit(1)
ServerStartupFailed ==
  /\ MainPending
  /\ res[Main] = "error"
  /\ proc' = [proc EXCEPT !.state = "exited", !.exit = "startup failure"]
  /\ UNCHANGED <<connVars, fileVars, execVars, hd, cw, rejection>>

\* A cleanup handler that exits without disconnecting
Signal_ExitOnly(sig) ==
  /\ proc.state \in {"created", "starting", "serving"}
  /\ ~MicrotaskPending
  /\ ~MainPending
  /\ proc' = [proc EXCEPT !.state = "exited", !.signal = sig,
                          !.exit = IF proc.handlers THEN "cleanup" ELSE "default"]
  /\ UNCHANGED <<connVars, fileVars, execVars, hd, cw, rejection>>

\* SIGINT or SIGTERM is delivered.  With the handlers registered cleanup() runs:
\* sshConnection.disconnect(); process.exit(0).  Before that the signal has its
\* default disposition and ends the process.
Signal(sig) ==
  /\ proc.state \in {"created", "starting", "serving"}
  /\ ~MicrotaskPending
  /\ ~MainPending
  /\ IF proc.handlers
     THEN /\ DisconnectBody
          /\ proc' = [proc EXCEPT !.state = "exited", !.signal = sig, !.exit = "cleanup"]
     ELSE /\ UNCHANGED <<client, connected>>
          /\ proc' = [proc EXCEPT !.state = "exited", !.signal = sig, !.exit = "default"]
  /\ UNCHANGED <<waiting, pc, op, res, early, fileVars, execVars, hd, cw, rejection>>

\* A tool request reaches the manager while the server is serving
\* (the flag is set from startup to exit, so a request never takes the lazy connect)
ServerRequest(c, o) == proc.state = "serving" /\ CallChannelOp(c, o)
ServerChannelCallback(c) == proc.state = "serving" /\ ChannelCallback(c)
ServerReply(c) == proc.state = "serving" /\ Return(c)

\* Events of the ssh2 client while the process is alive
ServerHandshakeReady == proc.state \in {"starting", "serving"} /\ ~MainPending /\ HandshakeReady
ServerHandshakeError == proc.state \in {"starting", "serving"} /\ ~MainPending /\ HandshakeError
ServerSessionClose == proc.state \in {"starting", "serving"} /\ ~MainPending /\ SessionClose

\* The calls an owner of the manager makes on it.  proc.quiet records that
\* disconnect() has returned and neither connect() nor an operation has been
\* issued since.
OwnerConnect(c) ==
  /\ pc[c] = "idle"
  /\ op' = [op EXCEPT ![c] = "connect"]
  /\ ConnectBody(c, "done")
  /\ proc' = [proc EXCEPT !.quiet = FALSE]
  /\ UNCHANGED <<fileVars, execVars, hd, cw, rejection>>

OwnerOperation(c, o) ==
  /\ pc[c] = "idle"
  /\ op' = [op EXCEPT ![c] = o]
  /\ GetSFTP(c)
  /\ proc' = [proc EXCEPT !.quiet = FALSE]
  /\ UNCHANGED <<fileVars, execVars, hd, cw, rejection>>

OwnerDisconnect ==
  /\ ~MicrotaskPending
  /\ DisconnectBody
  /\ proc' = [proc EXCEPT !.quiet = TRUE]
  /\ UNCHANGED <<waiting, pc, op, res, early, fileVars, execVars, hd, cw, rejection>>

(***************************************************************************)
(* handleAcpRemoteExecuteCommand: the choice of the execution path         *)
(***************************************************************************)
\* extra._meta.progressToken is undefined
NoToken == [type |-> "undefined", num |-> 0, str |-> ""]

\* Values of extra._meta.progressToken: absent, a number, a string
Tokens ==
  {NoToken,
   [type |-> "number", num |-> 0, str |-> ""], [type |-> "number", num |-> 1, str |-> ""],
   [type |-> "string", num |-> 0, str |-> ""], [type |-> "string", num |-> 0, str |-> "tok"]}

\* No request received
NoRequest == [token |-> NoToken, server |-> FALSE]

\* The truth value JavaScript gives a token in `progressToken && server`
Truthy(token) ==
  CASE token.type = "undefined" -> FALSE
    [] token.type = "number" -> token.num # 0
    [] token.type = "string" -> token.str # ""

\* if (progressToken && server) executeWithProgress(..) else execWithTimeout(..)
ExecutionPath(request) ==
  IF Truthy(request.token) /\ request.server THEN "stream" ELSE "timeout"

\* The handler takes the streaming path: executeWithProgress is called
HandleStreaming == ExecutionPath(hd) = "stream" /\ CallExecuteWithProgress

\* The handler takes the timeout path: execWithTimeout is called
HandleBuffered == ExecutionPath(hd) = "timeout" /\ CallExecWithTimeout

(***************************************************************************)
(* Two writeFile calls on one path                                         *)
(***************************************************************************)
ConcurrentWriters == 1..NumCallers

NoWriters == [w \in ConcurrentWriters |-> [content |-> <<>>, pos |-> "idle", status |-> "idle"]]

\* Contents the two calls are given: "A" and e-acute
WriterContents == {<<65>>, <<233>>}

\* What writer w leaves in the other variables
WritersFrame == UNCHANGED <<connVars, dirOk, wr, rd, execVars, proc, hd, rejection>>

\* writeFile(path, content) with the default options is called by w: no backup,
\* no directory creation; getSFTP() is awaited
CwCall(w, content) ==
  /\ cw[w].pos = "idle"
  /\ connected
  /\ cw' = [cw EXCEPT ![w] = [content |-> content, pos |-> "sftp", status |-> "running"]]
  /\ UNCHANGED fs
  /\ WritersFrame

\* The sftp callback of w: performWrite() issues sftp.writeFile(`${path}.tmp`, buffer)
CwSftpCallback(w) ==
  /\ cw[w].pos = "sftp"
  /\ \E ok \in (IF client.session = "open" THEN BOOLEAN ELSE {FALSE}) :
       IF ok
       THEN cw' = [cw EXCEPT ![w].pos = "tmpWrite"]
       ELSE cw' = [cw EXCEPT ![w].pos = "done", ![w].status = "sftp error"]
  /\ UNCHANGED fs
  /\ WritersFrame

\* The callback of sftp.writeFile(tempPath, buffer): the temporary file, which
\* both calls name `${path}.tmp`, holds w's buffer, or a part of it on failure
CwTmpWrite(w) ==
  /\ cw[w].pos = "tmpWrite"
  /\ LET buffer == BufferFrom(cw[w].content, "utf-8")
     IN  \/ /\ fs' = [fs EXCEPT !.tmp = File(buffer)]
            /\ cw' = [cw EXCEPT ![w].pos = "finalRename"]
         \/ /\ \E k \in 0..(Len(buffer) - 1) :
                  fs' = [fs EXCEPT !.tmp = File(SubSeq(buffer, 1, k))]
            /\ cw' = [cw EXCEPT ![w].pos = "done", ![w].status = "Failed to write file"]
  /\ WritersFrame

\* The callback of sftp.rename(tempPath, path) of w
CwFinalRename(w) ==
  /\ cw[w].pos = "finalRename"
  /\ \E out \in RenameOutcomes(fs.tmp) :
       IF out = "ok"
       THEN /\ fs' = [fs EXCEPT !.path = fs.tmp, !.tmp = Absent]
            /\ cw' = [cw EXCEPT ![w].pos = "done", ![w].status = "ok"]
       ELSE /\ cw' = [cw EXCEPT ![w].pos = "done", ![w].status = "Failed to rename temp file"]
            /\ UNCHANGED fs
  /\ WritersFrame

(***************************************************************************)
(* Specifications                                                          *)
(***************************************************************************)
\* After construction: not connected, no operation running, no file written yet.
Init ==
  /\ connected = FALSE
  /\ client = [session |-> "none", inflight |-> 0]
  /\ waiting = {}
  /\ pc = [c \in Callers |-> "idle"]
  /\ op = [c \in Callers |-> "none"]
  /\ res = [c \in Callers |-> "none"]
  /\ early = [c \in Callers |-> FALSE]
  /\ dirOk = TRUE
  /\ fs = [path |-> Absent, backup |-> Absent, tmp |-> Absent]
  /\ wr = NoWrite
  /\ rd = NoRead
  /\ rejection = [c \in Callers |-> NoError]
  /\ ex = NoExec
  /\ st = NoStream
  /\ lf = NoListing
  /\ proc = NoProcess
  /\ hd = NoRequest
  /\ cw = NoWriters

\* Several callers using the connection manager
NextConn ==
  \/ \E c \in Callers : CallConnect(c)
  \/ \E c \in Callers, o \in ChannelOps : CallChannelOp(c, o)
  \/ HandshakeReady
  \/ HandshakeError
  \/ \E c \in Callers : Resume(c)
  \/ \E c \in Callers : ChannelCallback(c)
  \/ \E c \in Callers : Return(c)
  \/ SessionClose
  \/ Disconnect

Spec == Init /\ [][NextConn]_vars

\* One writeFile call and a reader of the same path, over an established connection
InitFile ==
  /\ connected = TRUE
  /\ client = [session |-> "open", inflight |-> 0]
  /\ waiting = {}
  /\ pc = [c \in Callers |-> "idle"]
  /\ op = [c \in Callers |-> "none"]
  /\ res = [c \in Callers |-> "none"]
  /\ early = [c \in Callers |-> FALSE]
  /\ dirOk \in BOOLEAN
  /\ fs \in RemoteStates
  /\ (~dirOk => fs.path = Absent /\ fs.backup = Absent)
  /\ wr = NoWrite
  /\ rd = NoRead
  /\ rejection = [c \in Callers |-> NoError]
  /\ ex = NoExec
  /\ st = NoStream
  /\ lf = NoListing
  /\ proc = NoProcess
  /\ hd = NoRequest
  /\ cw = NoWriters

NextFile ==
  \/ \E content \in Contents, encoding \in Encodings, createDirs \in BOOLEAN, backup \in BOOLEAN :
        CallWriteFile(content, encoding, createDirs, backup)
  \/ WSftpCallback
  \/ WMkdir
  \/ WBackupRename
  \/ WTmpOpen
  \/ WTmpWrite
  \/ WFinalRename
  \/ \E encoding \in Encodings, maxSize \in MaxSizes : CallReadFile(encoding, maxSize)
  \/ RSftpCallback
  \/ RStat
  \/ RRead
  \/ RReturn

SpecFile == InitFile /\ [][NextFile]_vars

\* One execWithTimeout call on a Ready connection
InitExec ==
  /\ connected = TRUE
  /\ client = [session |-> "open", inflight |-> 0]
  /\ waiting = {}
  /\ pc = [c \in Callers |-> "idle"]
  /\ op = [c \in Callers |-> "none"]
  /\ res = [c \in Callers |-> "none"]
  /\ early = [c \in Callers |-> FALSE]
  /\ fs = [path |-> Absent, backup |-> Absent, tmp |-> Absent]
  /\ dirOk = TRUE
  /\ wr = NoWrite
  /\ rd = NoRead
  /\ rejection = [c \in Callers |-> NoError]
  /\ ex = NoExec
  /\ st = NoStream
  /\ lf = NoListing
  /\ proc = NoProcess
  /\ hd = NoRequest
  /\ cw = NoWriters

NextExec ==
  \/ CallExecWithTimeout
  \/ EOpenCallback
  \/ \E chunk \in Chunks : EData(chunk)
  \/ \E chunk \in Chunks : EStderrData(chunk)
  \/ \E code \in ExitCodes : EClose(code)
  \/ ETimer

SpecExec == InitExec /\ [][NextExec]_vars

\* One streaming execution on a Ready connection
InitStream ==
  /\ connected = TRUE
  /\ client = [session |-> "open", inflight |-> 0]
  /\ waiting = {}
  /\ pc = [c \in Callers |-> "idle"]
  /\ op = [c \in Callers |-> "none"]
  /\ res = [c \in Callers |-> "none"]
  /\ early = [c \in Callers |-> FALSE]
  /\ fs = [path |-> Absent, backup |-> Absent, tmp |-> Absent]
  /\ dirOk = TRUE
  /\ wr = NoWrite
  /\ rd = NoRead
  /\ rejection = [c \in Callers |-> NoError]
  /\ ex = NoExec
  /\ st = NoStream
  /\ lf = NoListing
  /\ proc = NoProcess
  /\ hd = NoRequest
  /\ cw = NoWriters

NextStream ==
  \/ CallExecuteWithProgress
  \/ SOpenCallback
  \/ \E d \in Delays : STick(d)
  \/ \E chunk \in Chunks : SData(chunk)
  \/ \E chunk \in Chunks : SStderrData(chunk)
  \/ SError
  \/ \E code \in ExitCodes : SClose(code)
  \/ SDestroyed
  \/ SReturn

SpecStream == InitStream /\ [][NextStream]_vars

\* The same command run twice on a Ready connection: first through
\* execWithTimeout, closing before the timer fires, then through the streaming
\* handler, the channel delivering the same chunks and the same exit code again.
InitBoth ==
  /\ connected = TRUE
  /\ client = [session |-> "open", inflight |-> 0]
  /\ waiting = {}
  /\ pc = [c \in Callers |-> "idle"]
  /\ op = [c \in Callers |-> "none"]
  /\ res = [c \in Callers |-> "none"]
  /\ early = [c \in Callers |-> FALSE]
  /\ fs = [path |-> Absent, backup |-> Absent, tmp |-> Absent]
  /\ dirOk = TRUE
  /\ wr = NoWrite
  /\ rd = NoRead
  /\ rejection = [c \in Callers |-> NoError]
  /\ ex = NoExec
  /\ st = NoStream
  /\ lf = NoListing
  /\ proc = NoProcess
  /\ hd = NoRequest
  /\ cw = NoWriters

\* The streaming run starts once the buffered run has returned its result
BothCallStream == ex.first = "close" /\ CallExecuteWithProgress

\* The next stdout chunk of the command arrives on the streaming channel
BothData(chunk) ==
  /\ Len(st.recvOut) < Len(ex.recvOut)
  /\ chunk = ex.recvOut[Len(st.recvOut) + 1]
  /\ SData(chunk)

\* The next stderr chunk of the command arrives on the streaming channel
BothStderrData(chunk) ==
  /\ Len(st.recvErr) < Len(ex.recvErr)
  /\ chunk = ex.recvErr[Len(st.recvErr) + 1]
  /\ SStderrData(chunk)

\* The command ends on the streaming channel as it did on the buffered one
BothClose(code) ==
  /\ st.recvOut = ex.recvOut
  /\ st.recvErr = ex.recvErr
  /\ code = ex.closeCode
  /\ SClose(code)

NextBoth ==
  \/ CallExecWithTimeout
  \/ EOpenCallback
  \/ \E chunk \in Chunks : EData(chunk)
  \/ \E chunk \in Chunks : EStderrData(chunk)
  \/ \E code \in ExitCodes : EClose(code)
  \/ BothCallStream
  \/ SOpenCallback
  \/ \E d \in Delays : STick(d)
  \/ \E chunk \in Chunks : BothData(chunk)
  \/ \E chunk \in Chunks : BothStderrData(chunk)
  \/ \E code \in ExitCodes : BothClose(code)
  \/ SReturn

SpecBoth == InitBoth /\ [][NextBoth]_vars

\* One listFiles call on a Ready connection, for every content of the directory
InitList ==
  /\ connected = TRUE
  /\ client = [session |-> "open", inflight |-> 0]
  /\ waiting = {}
  /\ pc = [c \in Callers |-> "idle"]
  /\ op = [c \in Callers |-> "none"]
  /\ res = [c \in Callers |-> "none"]
  /\ early = [c \in Callers |-> FALSE]
  /\ fs = [path |-> Absent, backup |-> Absent, tmp |-> Absent]
  /\ dirOk = TRUE
  /\ wr = NoWrite
  /\ rd = NoRead
  /\ rejection = [c \in Callers |-> NoError]
  /\ ex = NoExec
  /\ st = NoStream
  /\ lf \in {[NoListing EXCEPT !.dir = dir] : dir \in SUBSET Names}
  /\ proc = NoProcess
  /\ hd = NoRequest
  /\ cw = NoWriters

NextList ==
  \/ \E includeHidden \in BOOLEAN : CallListFiles(includeHidden)
  \/ LExecReturn
  \/ LSftp
  \/ LStat
  \/ LReturn
  \/ LFallbackSftp
  \/ LReaddir

SpecList == InitList /\ [][NextList]_vars

\* The server process from its start to its exit
InitServer ==
  /\ connected = FALSE
  /\ client = [session |-> "none", inflight |-> 0]
  /\ waiting = {}
  /\ pc = [c \in Callers |-> "idle"]
  /\ op = [c \in Callers |-> "none"]
  /\ res = [c \in Callers |-> "none"]
  /\ early = [c \in Callers |-> FALSE]
  /\ fs = [path |-> Absent, backup |-> Absent, tmp |-> Absent]
  /\ dirOk = TRUE
  /\ wr = NoWrite
  /\ rd = NoRead
  /\ rejection = [c \in Callers |-> NoError]
  /\ ex = NoExec
  /\ st = NoStream
  /\ lf = NoListing
  /\ proc = Created
  /\ hd = NoRequest
  /\ cw = NoWriters

NextServer ==
  \/ ServerMain
  \/ ServerStarted
  \/ ServerStartupFailed
  \/ \E sig \in Signals : Signal(sig)
  \/ \E c \in Callers, o \in ChannelOps : ServerRequest(c, o)
  \/ \E c \in Callers : ServerChannelCallback(c)
  \/ \E c \in Callers : ServerReply(c)
  \/ ServerHandshakeReady
  \/ ServerHandshakeError
  \/ ServerSessionClose

SpecServer == InitServer /\ [][NextServer]_vars

\* A command execution and a readFile issued by two callers on one Ready connection
InitConcurrent ==
  /\ connected = TRUE
  /\ client = [session |-> "open", inflight |-> 0]
  /\ waiting = {}
  /\ pc = [c \in Callers |-> "idle"]
  /\ op = [c \in Callers |-> "none"]
  /\ res = [c \in Callers |-> "none"]
  /\ early = [c \in Callers |-> FALSE]
  /\ fs = [path |-> File(<<111>>), backup |-> Absent, tmp |-> Absent]
  /\ dirOk = TRUE
  /\ wr = NoWrite
  /\ rd = NoRead
  /\ rejection = [c \in Callers |-> NoError]
  /\ ex = NoExec
  /\ st = NoStream
  /\ lf = NoListing
  /\ proc = NoProcess
  /\ hd = NoRequest
  /\ cw = NoWriters

NextConcurrent ==
  \/ CallExecWithTimeout
  \/ EOpenCallback
  \/ \E chunk \in Chunks : EData(chunk)
  \/ \E chunk \in Chunks : EStderrData(chunk)
  \/ \E code \in ExitCodes : EClose(code)
  \/ ETimer
  \/ \E encoding \in Encodings, maxSize \in MaxSizes : CallReadFile(encoding, maxSize)
  \/ RSftpCallback
  \/ RStat
  \/ RRead
  \/ RReturn

SpecConcurrent == InitConcurrent /\ [][NextConcurrent]_vars

\* One execute-command request, for every progress token and with or without a server
InitHandler ==
  /\ connected = TRUE
  /\ client = [session |-> "open", inflight |-> 0]
  /\ waiting = {}
  /\ pc = [c \in Callers |-> "idle"]
  /\ op = [c \in Callers |-> "none"]
  /\ res = [c \in Callers |-> "none"]
  /\ early = [c \in Callers |-> FALSE]
  /\ fs = [path |-> Absent, backup |-> Absent, tmp |-> Absent]
  /\ dirOk = TRUE
  /\ wr = NoWrite
  /\ rd = NoRead
  /\ rejection = [c \in Callers |-> NoError]
  /\ ex = NoExec
  /\ st = NoStream
  /\ lf = NoListing
  /\ proc = NoProcess
  /\ hd \in [token : Tokens, server : BOOLEAN]
  /\ cw = NoWriters

NextHandler ==
  \/ HandleStreaming
  \/ HandleBuffered
  \/ EOpenCallback
  \/ \E chunk \in Chunks : EData(chunk)
  \/ \E chunk \in Chunks : EStderrData(chunk)
  \/ \E code \in ExitCodes : EClose(code)
  \/ ETimer
  \/ SOpenCallback
  \/ \E chunk \in Chunks : SData(chunk)
  \/ \E chunk \in Chunks : SStderrData(chunk)
  \/ SError
  \/ \E code \in ExitCodes : SClose(code)
  \/ SDestroyed
  \/ SReturn

SpecHandler == InitHandler /\ [][NextHandler]_vars

\* The same call with the event loop's guarantee that an armed timer whose delay
\* has expired gets its callback run
FairSpecExec == InitExec /\ [][NextExec]_vars /\ WF_vars(ETimer)

\* The manager driven by an owner that connects, operates and disconnects
InitOwner ==
  /\ connected = FALSE
  /\ client = [session |-> "none", inflight |-> 0]
  /\ waiting = {}
  /\ pc = [c \in Callers |-> "idle"]
  /\ op = [c \in Callers |-> "none"]
  /\ res = [c \in Callers |-> "none"]
  /\ early = [c \in Callers |-> FALSE]
  /\ fs = [path |-> Absent, backup |-> Absent, tmp |-> Absent]
  /\ dirOk = TRUE
  /\ wr = NoWrite
  /\ rd = NoRead
  /\ rejection = [c \in Callers |-> NoError]
  /\ ex = NoExec
  /\ st = NoStream
  /\ lf = NoListing
  /\ proc = NoProcess
  /\ hd = NoRequest
  /\ cw = NoWriters

NextOwner ==
  \/ \E c \in Callers : OwnerConnect(c)
  \/ \E c \in Callers, o \in ChannelOps : OwnerOperation(c, o)
  \/ OwnerDisconnect
  \/ HandshakeReady
  \/ HandshakeError
  \/ \E c \in Callers : Resume(c)
  \/ \E c \in Callers : ChannelCallback(c)
  \/ \E c \in Callers : Return(c)
  \/ SessionClose

SpecOwner == InitOwner /\ [][NextOwner]_vars

\* Two writeFile calls issued on the same path of a Ready connection
InitWriters ==
  /\ connected = TRUE
  /\ client = [session |-> "open", inflight |-> 0]
  /\ waiting = {}
  /\ pc = [c \in Callers |-> "idle"]
  /\ op = [c \in Callers |-> "none"]
  /\ res = [c \in Callers |-> "none"]
  /\ early = [c \in Callers |-> FALSE]
  /\ fs \in [path : {Absent, File(<<111>>)}, backup : {Absent}, tmp : {Absent}]
  /\ dirOk = TRUE
  /\ wr = NoWrite
  /\ rd = NoRead
  /\ rejection = [c \in Callers |-> NoError]
  /\ ex = NoExec
  /\ st = NoStream
  /\ lf = NoListing
  /\ proc = NoProcess
  /\ hd = NoRequest
  /\ cw = NoWriters

NextWriters ==
  \/ \E w \in ConcurrentWriters, content \in WriterContents : CwCall(w, content)
  \/ \E w \in ConcurrentWriters : CwSftpCallback(w)
  \/ \E w \in ConcurrentWriters : CwTmpWrite(w)
  \/ \E w \in ConcurrentWriters : CwFinalRename(w)

SpecWriters == InitWriters /\ [][NextWriters]_vars

(***************************************************************************)
(* Properties of writeFile and readFile (checked under SpecFile)           *)
(***************************************************************************)
NewFile == File(BufferFrom(wr.content, wr.encoding))

\* C1: while a writeFile call is in progress, a reader of path observes either the
\* complete old content or the complete new content, never a blend and never a
\* missing file when path existed before the call.
C1_ReaderSeesOldOrNew ==
  wr.status = "running" => ReaderObserves \in {wr.old, NewFile}

\* C2: when the write of the temporary file fails, writeFile fails and path holds
\* exactly the content it had before the call, whatever backup and createDirs are.
C2_TmpWriteFailureLeavesPath ==
  wr.failedAt = "tmpWrite" => (wr.status = "error" /\ fs.path = wr.old)

\* C3: when the final rename fails, writeFile reports an error, the temporary file
\* is left in place and path still holds the content it had before the call.
C3_RenameFailureLeavesPath ==
  wr.failedAt = "finalRename" =>
     (wr.status = "error" /\ fs.tmp.exists /\ fs.path = wr.old)

StepOrder == <<"mkdir", "backupRename", "tmpWrite", "finalRename">>
StepIndex(step) == CHOOSE i \in 1..Len(StepOrder) : StepOrder[i] = step
Last(q) == q[Len(q)]

\* C4: the steps of writeFile are issued in the order mkdir (if createDirs), backup
\* rename (if backup), temp write, final rename; a step that fails the call is the
\* last one issued, so a failed mkdir is followed by no rename and no write.
C4_StepsInOrderAbortOnFailure ==
  /\ \A i, j \in 1..Len(wr.issued) :
        i < j => StepIndex(wr.issued[i]) < StepIndex(wr.issued[j])
  /\ ("mkdir" \in Range(wr.issued) => wr.createDirs)
  /\ ("backupRename" \in Range(wr.issued) => wr.backup)
  /\ (wr.createDirs /\ wr.issued # <<>> => wr.issued[1] = "mkdir")
  /\ (wr.backup /\ "tmpWrite" \in Range(wr.issued) => "backupRename" \in Range(wr.issued))
  /\ ("finalRename" \in Range(wr.issued) => "tmpWrite" \in Range(wr.issued))
  /\ (wr.failedAt \in Range(StepOrder) => Last(wr.issued) = wr.failedAt)
  /\ (wr.failedAt = "mkdir" => wr.issued = <<"mkdir">> /\ fs.tmp = Absent /\ fs.path = wr.old)
  /\ (wr.status = "error" => pc[Writer] = "done")

\* Witness of C4: mkdir failed in a call that asked for a backup of an existing file
C4_Witness ==
  /\ wr.failedAt = "mkdir" /\ wr.backup /\ wr.old.exists /\ pc[Writer] = "done"

\* C5: with backup=true a "No such file" failure of the backup rename is tolerated
\* and the write goes on to the temp write; any other failure of that rename fails
\* writeFile, and neither the temp write nor the final rename is issued.
C5_BackupRenameTolerance ==
  /\ wr.backupResult = "No such file" =>
        /\ wr.failedAt # "backupRename"
        /\ (pc[Writer] = "tmpOpen" \/ "tmpWrite" \in Range(wr.issued))
  /\ wr.backupResult \notin {"none", "ok", "No such file"} =>
        /\ wr.status = "error" /\ wr.failedAt = "backupRename"
        /\ pc[Writer] = "done"
        /\ "tmpWrite" \notin Range(wr.issued)
        /\ "finalRename" \notin Range(wr.issued)
        /\ fs.tmp = Absent

\* Witness of C5: the backup rename found no file and the write completed
C5_Witness ==
  wr.backup /\ wr.backupResult = "No such file" /\ wr.status = "ok" /\ fs.path = NewFile

\* C6: a successful writeFile carries a backupPath only when that call created a
\* backup file; with backup=true and no file at path, backupPath is undefined.
C6_BackupPathOnlyWhenCreated ==
  wr.status = "ok" => (wr.backupPath # "undefined" => wr.backupResult = "ok")

WellFormed(s) ==
  \A i \in 1..Len(s) :
     /\ IsHigh(s[i]) => (i < Len(s) /\ IsLow(s[i + 1]))
     /\ IsLow(s[i]) => (i > 1 /\ IsHigh(s[i - 1]))

\* The content survives the encoding: 7-bit characters for ascii, well-formed
\* UTF-16 for utf-8
Representable(s, encoding) ==
  IF encoding = "ascii" THEN \A i \in 1..Len(s) : s[i] < 128 ELSE WellFormed(s)

C8_OneHandshakeInFlight == client.inflight <= 1

\* C9: connect() called while the connection is Ready returns successfully at once,
\* starts no handshake, registers nothing on the client and leaves the state unchanged.
C9_ConnectWhenReadyIsNoOp ==
  [][\A c \in Callers :
       (CallConnect(c) /\ connected) =>
          /\ UNCHANGED <<connected, client, waiting>>
          /\ pc'[c] = "done" /\ res'[c] = "ok"
          /\ ConnectionState' = ConnectionState]_vars

\* Witness of C9: a connect() that returned through the early return, with the
\* connection still Ready and no handshake pending
C9_Witness ==
  \E c \in Callers :
     /\ op[c] = "connect" /\ pc[c] = "done" /\ early[c] /\ res[c] = "ok"
     /\ connected /\ client.inflight = 0

\* C10: when the underlying session closes while the state is Ready, the state
\* becomes Disconnected and isConnected() is false.
C10_SessionCloseDisconnects ==
  client.session = "closed" => (~isConnected /\ ConnectionState = "Disconnected")

\* C11: disconnect() ends the session and leaves isConnected() false; when the
\* manager is already disconnected it changes nothing, the client included.
C11_DisconnectClosesSession ==
  [][Disconnect =>
       /\ ~connected'
       /\ connected => client'.session # "open"
       /\ ~connected => UNCHANGED vars]_vars

\* disconnect() has run on a connected manager
C11_Witness == ~connected /\ client.session = "closed"

\* C12: exec, execWithTimeout, execStream and getSFTP request their channel only
\* while the manager is connected, a channel opens only on an open session, and a
\* caller whose connect() failed ends in failure without requesting a channel.
C12_ChannelOnlyWhenReady ==
  [][\A c \in Callers :
       /\ (pc[c] # "awaitChannel" /\ pc'[c] = "awaitChannel") => connected
       /\ (pc[c] = "awaitChannel" /\ res'[c] = "ok") => client.session = "open"
       /\ (pc[c] = "awaitConnect" /\ pc'[c] = "resume") => connected'
       /\ (pc[c] = "awaitConnect" /\ res'[c] = "error") => pc'[c] = "done"]_vars

\* One channel operation failed with its connect(), another requested its
\* channel after its connect() succeeded
C12_Witness ==
  \E c, d \in Callers :
    /\ op[c] \in ChannelOps /\ pc[c] = "done" /\ res[c] = "error"
    /\ rejection[c] # NoError
    /\ op[d] \in ChannelOps /\ pc[d] = "awaitChannel" /\ connected

\* C13: a connect() that failed in the handshake is rejected with a
\* ConnectionError carrying the host and the underlying error.
C13_ConnectFailsWithConnectionError ==
  \A c \in Callers :
    (res[c] = "error" /\ rejection[c] # NoError) =>
      /\ rejection[c].type = "ConnectionError"
      /\ rejection[c].host = Host
      /\ rejection[c].cause \in HandshakeFailures

\* C14: when the timer of execWithTimeout fires before the channel closes, the
\* call returns exactly stdout "", stderr "Command execution timed out",
\* exitCode 124, timedOut true, whatever had been accumulated.
C14_TimeoutResultExact ==
  ex.first = "timer" =>
    ex.result = [kind |-> "result", stdout |-> <<>>,
                 stderr |-> <<"Command execution timed out">>,
                 exitCode |-> 124, timedOut |-> TRUE, message |-> ""]

\* The timer fired first although both streams had delivered output
C14_Witness == ex.first = "timer" /\ ex.stdout # <<>> /\ ex.stderr # <<>>

\* C15: when the channel closes before the timer fires, the call returns
\* timedOut false, the exit code of the close event, and stdout and stderr equal
\* to the chunks received on each stream, concatenated in order of arrival.
C15_CompletedResult ==
  ex.first = "close" =>
    /\ ex.result.kind = "result"
    /\ ex.result.timedOut = FALSE
    /\ ex.result.exitCode = ex.closeCode
    /\ ex.result.stdout = Flatten(ex.recvOut)
    /\ ex.result.stderr = Flatten(ex.recvErr)

\* The channel closed first with a non-zero code after two stdout chunks
C15_Witness == ex.first = "close" /\ Len(ex.recvOut) >= 2 /\ ex.closeCode = 1

\* C16: in every result execWithTimeout returns, exitCode 124 comes only with
\* timedOut true.
C16_Exit124OnlyOnTimeout ==
  (ex.result.kind = "result" /\ ex.result.exitCode = 124) => ex.result.timedOut

C18_HandlesAtOpenExitOnClose ==
  /\ st.chan = "open" => (st.status = "returned" /\ st.exitCode.state = "pending")
  /\ st.status = "returned" => st.chan \in {"open", "closed", "dead"}
  /\ st.chan = "closed" => st.exitCode.state = "resolved"
  /\ st.exitCode.state = "resolved" =>
       /\ st.chan = "closed"
       /\ st.exitCode.value = st.closeCode
       /\ st.resolves = 1

\* The channel closed with code 1 and the handler returned its result
C18_Witness ==
  /\ st.chan = "closed" /\ st.closeCode = 1
  /\ st.exitCode.state = "resolved"
  /\ st.output.kind = "success"

\* C19: once the channel of a returned execStream has errored and is gone, the
\* exit-code promise is completed with an error.
C19_ErrorCompletesExitFuture ==
  (st.errored /\ st.chan \in {"closed", "dead"}) => st.exitCode.state = "rejected"

\* C20: a streaming execution whose channel errored mid-stream ends in an error
\* outcome, never in an ordinary result.
C20_MidStreamErrorSurfaced ==
  (st.errored /\ st.output.kind # "none") => st.output.kind = "error"

\* C21: when a streaming execution whose channel had an error returns a result,
\* the stdout of the result contains every stdout chunk received, those received
\* before the error included, in order.
C21_OutputKeptAfterError ==
  (st.errored /\ st.output.kind = "success") =>
    /\ st.output.stdout = Flatten(st.recvOut)
    /\ st.errorAt <= Len(st.recvOut)

\* A result was returned after an error that came after two stdout chunks
C21_Witness ==
  st.errored /\ st.output.kind = "success" /\ st.errorAt >= 2

\* C22: any two consecutive progress notifications of a streaming execution are
\* sent at least 100 ms apart.
C22_NotificationsSpaced ==
  \A i \in 1..(Len(st.notifications) - 1) :
    st.notifications[i + 1].time - st.notifications[i].time >= 100

\* Two notifications were sent and a chunk in between was suppressed
C22_Witness ==
  Len(st.notifications) >= 2 /\ Len(st.recvOut) > Len(st.notifications)

\* The messages of the notifications sent so far, in order
Messages == [i \in 1..Len(st.notifications) |-> st.notifications[i].message]

\* C23: once the execution has returned, the messages of its progress
\* notifications, concatenated in order, equal its full stdout.
C23_NotificationsCoverStdout ==
  st.output.kind = "success" => Flatten(Messages) = st.output.stdout

\* C24: once the execution has returned, the last stdout chunk received has been
\* delivered: the last notification reports all bytes received.
C24_LastChunkFlushed ==
  (st.output.kind = "success" /\ st.recvOut # <<>>) =>
    /\ st.notifications # <<>>
    /\ st.notifications[Len(st.notifications)].progress = st.bytesReceived

\* C25: for a command that delivers the same chunks and closes before the
\* timeout, the result of the streaming handler has the stdout and the exit code
\* of the result execWithTimeout returned, whichever notifications were sent.
C25_StreamEqualsBuffered ==
  st.output.kind = "success" =>
    /\ ex.result.kind = "result"
    /\ st.output.stdout = ex.result.stdout
    /\ st.output.exitCode = ex.result.exitCode

\* Both runs returned, with two stdout chunks of which one was not notified
C25_Witness ==
  /\ st.output.kind = "success" /\ ex.first = "close"
  /\ Len(st.recvOut) >= 2 /\ Len(st.notifications) < Len(st.recvOut)
  /\ st.output.exitCode = 1

RECURSIVE Kept(_, _, _)
\* The names of a sequence at the positions not in `failed`, in order
Kept(names, failed, i) ==
  IF i > Len(names) THEN <<>>
  ELSE (IF i \in failed THEN <<>> ELSE <<names[i]>>) \o Kept(names, failed, i + 1)

\* C27: on the primary strategy a failing stat skips only its own name: the
\* listing goes on, ends in success without the fallback, and returns one entry
\* for every other enumerated name, in order.
C27_StatFailureSkipsEntry ==
  [][/\ lf.status = "stat" =>
          /\ lf'.status \in {"stat", "ok"}
          /\ lf'.strategy = "primary"
     /\ (lf'.status = "ok" /\ lf'.strategy = "primary") =>
          lf'.result.entries = Kept(lf'.enumerated, lf'.failedStats, 1)]_vars

\* A listing succeeded on the primary strategy with one stat failed, one not
C27_Witness ==
  /\ lf.status = "ok" /\ lf.strategy = "primary"
  /\ lf.failedStats # {} /\ lf.result.entries # <<>>

\* C28: when the enumeration command exits with a non-zero code, the timeout
\* code included, or throws, listFiles takes the fallback and returns the
\* entries of the directory read, or fails with the error of that read.
C28_FallbackOnEnumerationFailure ==
  /\ (lf.outcome.kind = "failure"
        \/ (lf.outcome.kind = "result" /\ lf.outcome.exitCode # 0)) =>
       /\ lf.strategy = "fallback"
       /\ lf.status \in {"fallbackSftp", "readdir", "ok", "error"}
       /\ lf.status = "ok" =>
            /\ lf.readdir.kind = "ok"
            /\ lf.result.entries = FallbackEntries(lf.readdir.list, lf.includeHidden)
  /\ lf.readdir.kind = "error" =>
       (lf.status = "error" /\ lf.error = lf.readdir.message)

\* The command timed out and the directory read delivered the entries
C28_Witness ==
  /\ lf.outcome.exitCode = 124 /\ lf.strategy = "fallback"
  /\ lf.status = "ok" /\ lf.result.entries # <<>>

\* C29: a listing with includeHidden that was produced by the fallback tells its
\* caller, in what it returns, that hidden entries may be missing.
C29_FallbackAnnounced ==
  (lf.status = "ok" /\ lf.strategy = "fallback" /\ lf.includeHidden) =>
    lf.result.notice # "none"

\* C30: readFile reads only after a stat that reported a size of at most
\* maxSize; a stat reporting more ends the call with the "File too large"
\* failure and no read; a file of exactly maxSize bytes is read in full.
C30_SizeGuardBeforeRead ==
  [][/\ (pc'[Reader] = "read" /\ pc[Reader] # "read") =>
          /\ pc[Reader] = "stat"
          /\ fs.path.exists
          /\ Len(fs.path.data) <= rd.maxSize
          /\ rd'.size = Len(fs.path.data)
     /\ (pc[Reader] = "stat" /\ rd'.status = "File too large") =>
          /\ Len(fs.path.data) > rd.maxSize
          /\ pc'[Reader] = "done"
          /\ rd'.content = <<>>
     /\ (pc[Reader] = "stat" /\ pc'[Reader] = "done") =>
          rd'.status \in {"File too large", "File not found or inaccessible"}
     /\ (pc[Reader] = "read" /\ rd'.status = "ok") =>
          rd'.content = BufferToString(fs.path.data, rd.encoding)]_vars

\* A file of exactly maxSize bytes was read
C30_Witness == rd.status = "ok" /\ rd.size = rd.maxSize /\ rd.content # <<>>

\* C31: when the stat issued by readFile fails, readFile fails with the "not
\* found" failure and no read of the file is issued; that failure comes from
\* nowhere else than a failed stat, so it is told apart from the size guard's
\* failure and from a failure of the read itself.
C31_StatFailureIsNotFound ==
  [][/\ (pc[Reader] = "stat" /\ pc'[Reader] # "stat" /\ ~fs.path.exists)
          => (rd'.status = "File not found or inaccessible" /\ pc'[Reader] = "done")
     /\ (rd'.status = "File not found or inaccessible" /\ rd.status = "running")
          => (/\ pc[Reader] = "stat" /\ pc'[Reader] = "done"
              /\ rd'.content = <<>> /\ rd'.size = 0)
     /\ (pc[Reader] = "stat" /\ pc'[Reader] = "read")
          => (fs.path.exists /\ rd'.status = "running")
     /\ (pc[Reader] = "read" /\ pc'[Reader] = "done" /\ rd'.status # "ok")
          => rd'.status = "Failed to read file"
    ]_<<pc, rd>>

\* witness: a stat that failed and ended the call without a read
C31_Witness ==
  pc[Reader] = "done" /\ rd.status = "File not found or inaccessible" /\ rd.content = <<>>

C34_PathFollowsToken ==
  /\ (st.status # "idle" \/ ex.status # "idle")
       => /\ (hd.token.type # "undefined" /\ hd.server) => st.status # "idle"
          /\ ex.status # "idle" <=> (hd.token.type = "undefined" \/ ~hd.server)
  /\ st.output.streamed => ~st.output.timedOut

\* C35: each execWithTimeout call has exactly one outcome: whichever of the
\* channel's close and the timer happens first decides the result (a completed
\* result for the close, the timeout result for the timer); the later event
\* neither changes the result nor produces a second one.
C35_OneOutcome ==
  [][/\ (ex.first = "none" /\ ex'.first = "close")
          => (ex.chan = "open" /\ ex'.chan = "closed" /\ ex.timer # "fired"
              /\ ex'.result = Completed(ex, ex'.closeCode))
     /\ (ex.first = "none" /\ ex'.first = "timer")
          => (ex.timer = "armed" /\ ex'.timer = "fired" /\ ex.chan # "closed"
              /\ ex'.result = Caught(TimeoutMessage))
     /\ ex.first # "none"
          => (ex'.first = ex.first /\ ex'.result = ex.result /\ ex'.status = "returned"
              /\ pc'[Executor] = pc[Executor] /\ res'[Executor] = res[Executor])
    ]_vars

\* witness: the timer decided, the channel closed afterwards, and the result is
\* still the timeout result
C35_Witness ==
  /\ ex.first = "timer" /\ ex.chan = "closed" /\ ex.timer = "fired"
  /\ ex.result.timedOut /\ ex.result.exitCode = TimeoutExitCode

\* C37: on a Ready connection every execWithTimeout call terminates: it has
\* returned a result or a failure by the time its timer has fired, whether or not
\* the channel ever closes and whether or not the open callback is ever invoked.
C37_TerminatesByTimer ==
  /\ [](ex.timer = "fired" => ex.status = "returned")
  /\ [](ex.status = "returned" => pc[Executor] = "done" /\ ex.result.kind # "none")
  /\ (ex.status = "pending" ~> ex.status = "returned")

\* witness: the open callback was never invoked and the call returned at the
\* expiry of its timer
C37_Witness ==
  /\ ex.status = "returned" /\ ex.first = "timer" /\ ex.chan = "none"
  /\ pc[Executor] = "done" /\ ex.result.timedOut

(***************************************************************************)
(* Properties of the manager's owner (checked under SpecOwner)             *)
(***************************************************************************)
\* C38: after disconnect() has returned, isConnected() is false and stays false
\* until a later connect() or operation is issued, also when disconnect() was
\* called while a connection attempt was in flight.
C38_DisconnectedUntilNextCall ==
  proc.quiet => ~isConnected

(***************************************************************************)
(* Properties of concurrent writeFile calls (checked under SpecWriters)    *)
(***************************************************************************)
\* C39: of two writeFile calls running at once on the same path, every call
\* that reports success has installed its own content: right after its final
\* rename, path holds exactly the content that call was given, never the
\* content of the other call.
C39_SuccessInstalledOwnContent ==
  [][\A w \in ConcurrentWriters :
       (cw[w].status # "ok" /\ cw'[w].status = "ok")
          => fs'.path = File(BufferFrom(cw[w].content, "utf-8"))]_vars

\* C40: every successful readFile result respects the size guard and is
\* self-consistent, also when a writer changes the file between the stat and the
\* read: the content returned is no larger than maxSize bytes, and the size
\* returned is the size of the content returned.
C40_ResultWithinGuard ==
  rd.status = "ok" => (rd.bytes <= rd.maxSize /\ rd.size = rd.bytes)

====
